---- MODULE Spec2Model ----
(***************************************************************************)
(* Graphix: the polling main loop, the status and PoI collectors, the      *)
(* indexer registry (deduplication + watch channel) and the divergence     *)
(* bisection, modelled as state machines.  Each component has its own      *)
(* specification over a shared set of variables; a component that is not   *)
(* exercised by a specification stays in its idle state.                   *)
(***************************************************************************)
EXTENDS Integers, Sequences, FiniteSets, Bags, TLC

(* ----------------------------- bounds ---------------------------------- *)
\* longest indexer list handed to deduplicate_indexers
MaxList == 3
\* longest indexer list handed to query_indexing_statuses
MaxIndexers == 2
\* most statuses one indexer returns from indexing_statuses()
MaxStatusesPerIndexer == 2
\* longest status list handed to query_proofs_of_indexing
MaxStatuses == 3
\* highest latest_block.number an indexer reports to the PoI collector
MaxLatest == 2

\* main-loop iterations that are started
MaxIterations == 2
\* longest indexer list config_to_indexers builds
MaxConfigured == 2

\* the largest block number of the bisection model: stands for u64::MAX
MaxBlockNumber == 7

\* longest status list handed to a block choice policy on its own
MaxPolicyStatuses == 5

\* the length of a PoI in bytes in the Bytes32 model: stands for 32
Bytes32Len == 2
\* longest wire string handed to Bytes32::try_from
MaxHexInput == 4

(* --------------------------- data model -------------------------------- *)
None == "none"

IndexerIds == {"i1", "i2", "i3"}

\* Indexer::address() is an Option: None or one of a few addresses
IndexerAddresses == {None, "0x01", "0x02"}

\* an indexer handle: Indexer::id() and Indexer::address()
Indexer == [id : IndexerIds, address : IndexerAddresses]

SeqsUpTo(S, n) == UNION {[1..k -> S] : k \in 0..n}

Deployments == {"QmA", "QmB"}

\* Indexer::address_string(), the metric label
address_string(indexer) == indexer.address

\* number of positions of s holding x
CountIn(s, x) == Cardinality({k \in DOMAIN s : s[k] = x})

VARIABLES
    dd_pc,        \* deduplicate_indexers: "idle" | "called" | "returned"
    dd_input,     \* its argument
    dd_output     \* its return value

dedupVars == <<dd_pc, dd_input, dd_output>>

VARIABLES
    qs_pc,         \* query_indexing_statuses: "idle" | "querying" | "folding" | "returned" | "done"
    qs_indexers,   \* its argument `indexers`
    qs_responses,  \* what each indexer's indexing_statuses() resolves to
    qs_results,    \* `indexing_statuses_results`, in completion order, not yet folded
    qs_folded,     \* positions whose result the `for` loop has consumed
    qs_acc,        \* indexing_statuses, query_successes, query_failures, metrics
    qs_legacy      \* return value of the FuturesOrdered variant on the same input

statusVars == <<qs_pc, qs_indexers, qs_responses, qs_results, qs_folded, qs_acc, qs_legacy>>

VARIABLES
    qp_pc,        \* query_proofs_of_indexing: "idle" | "called" | "querying" | "returned"
    qp_statuses,  \* its argument `indexing_statuses`
    qp_policy,    \* its argument `block_choice_policy`
    qp_requests,  \* indexer -> the `poi_requests` its proofs_of_indexing call was given
    qp_pending,   \* indexers whose call has not resolved yet
    qp_pois,      \* the PoIs collected so far, flattened, in completion order
    qp_calls,     \* indexer -> how often its proofs_of_indexing was called
    qp_batches    \* indexer -> the `poi_requests` Vec of its call, as a bag (order left out)

poiVars == <<qp_pc, qp_statuses, qp_policy, qp_requests, qp_pending, qp_pois, qp_calls,
             qp_batches>>

VARIABLES
    ml_pc,          \* main: the statement the loop is at, or "idle" / "exited"
    ml_iter,        \* number of the running iteration
    ml_policy,      \* config.block_choice_policy
    ml_indexers,    \* `indexers` of the iteration (deduplicated)
    ml_statuses,    \* `indexing_statuses` of the iteration
    ml_pois,        \* `pois` of the iteration
    ml_events,      \* Store writes and publishes of the iteration, in order
    ml_errors,      \* errors the iterations ran into, in order
    ml_exit,        \* the error main returned with, or None
    store_indexers, \* Store: indexer rows
    store_versions, \* Store: ids of the indexers with a graph-node version row
    store_pois,     \* Store: PoI rows, each with its liveness
    chan,           \* the watch channel: value, version, receivers
    inv_pc,         \* the investigator task: "running" | "ended"
    inv_snapshot    \* the snapshot the investigator read last

loopVars == <<ml_pc, ml_iter, ml_policy, ml_indexers, ml_statuses, ml_pois,
              ml_events, ml_errors, ml_exit,
              store_indexers, store_versions, store_pois,
              chan, inv_pc, inv_snapshot>>

VARIABLES
    bs_pc,        \* the investigation: "idle" | "loop" | "reported" | "partial_failure" | "panicked"
    bs_req,       \* the request's upper_block_number and the two earliest blocks
    bs_checked,   \* TRUE iff the build checks integer overflow
    bs_low,       \* `low`
    bs_high,      \* `high`
    bs_poi_a,     \* what is determined of indexer_a's PoI per block (Unknown: not yet)
    bs_poi_b,     \* the same for indexer_b
    bs_probed,    \* the blocks probed so far, in order
    bs_written,   \* PoI rows the investigation has persisted
    bs_live,      \* blocks at which write_pois stored Live PoIs of both indexers before
    bs_report     \* the report written, or NoReport

bisectVars == <<bs_pc, bs_req, bs_checked, bs_low, bs_high, bs_poi_a, bs_poi_b,
                bs_probed, bs_written, bs_live, bs_report>>

VARIABLES
    pl_pc,          \* choose_block on its own: "idle" | "start" | "chosen" | "rechosen"
    pl_policy,      \* the policy
    pl_statuses,    \* the statuses of one deployment, as iterated
    pl_result,      \* what choose_block returned for them
    pl_reordered,   \* the same statuses iterated in another order
    pl_reresult     \* what choose_block returned for the other order

policyVars == <<pl_pc, pl_policy, pl_statuses, pl_result, pl_reordered, pl_reresult>>

VARIABLES
    eq_pc,          \* Eq and Hash of dyn Indexer on their own: "idle" | "start" | "compared" | "hashed"
    eq_a,           \* one indexer
    eq_b,           \* another indexer
    eq_result,      \* what eq_a == eq_b evaluated to
    eq_hash_a,      \* what eq_a.hash(state) fed to the hasher
    eq_hash_b       \* the same for eq_b

eqVars == <<eq_pc, eq_a, eq_b, eq_result, eq_hash_a, eq_hash_b>>

VARIABLES
    hx_pc,          \* Bytes32 on its own: "idle" | "value" | "encoded" | "wire" | "round_trip" | "decoded"
    hx_value,       \* the Bytes32 that is encoded
    hx_prefixed,    \* TRUE iff "0x" is put in front of the encoding
    hx_string,      \* the string handed to try_from
    hx_result       \* what try_from returned

hexVars == <<hx_pc, hx_value, hx_prefixed, hx_string, hx_result>>

\* the variables of the pure functions checked on their own
pureVars == <<policyVars, eqVars, hexVars>>

vars == <<dd_pc, dd_input, dd_output,
          bs_pc, bs_req, bs_checked, bs_low, bs_high, bs_poi_a, bs_poi_b,
          bs_probed, bs_written, bs_live, bs_report,
          qs_pc, qs_indexers, qs_responses, qs_results, qs_folded, qs_acc, qs_legacy,
          qp_pc, qp_statuses, qp_policy, qp_requests, qp_pending, qp_pois, qp_calls,
          qp_batches,
          ml_pc, ml_iter, ml_policy, ml_indexers, ml_statuses, ml_pois,
          ml_events, ml_errors, ml_exit,
          store_indexers, store_versions, store_pois,
          chan, inv_pc, inv_snapshot, pureVars>>

(* ------------------------ deduplicate_indexers ------------------------- *)
\* mutation: the seen-set is keyed by id instead of address
DedupKeyById(indexer) == indexer.id

\* the key held in `seen`: indexer.address()
DedupKey(indexer) == indexer.address

\* the body of `for indexer in indexers`, from position i on
RECURSIVE DedupLoop(_, _, _, _)
DedupLoop(indexers, i, seen, deduplicated) ==
    IF i > Len(indexers) THEN deduplicated
    ELSE IF DedupKey(indexers[i]) \notin seen
         THEN DedupLoop(indexers, i + 1, seen \cup {DedupKey(indexers[i])},
                        Append(deduplicated, indexers[i]))
         ELSE DedupLoop(indexers, i + 1, seen, deduplicated)

deduplicate_indexers(indexers) == DedupLoop(indexers, 1, {}, <<>>)

(* ----------------------- query_indexing_statuses ----------------------- *)
\* indexers the status collector is run on
StatusIndexers ==
    {[id |-> "i1", address |-> "0x01"],
     [id |-> "i2", address |-> "0x01"],
     [id |-> "i3", address |-> "0x02"]}

\* statuses an indexer may report about itself
StatusChoices(indexer) ==
    {[indexer |-> indexer, deployment |-> d, latest |-> 1] : d \in Deployments}

\* Result<Vec<IndexingStatus>, anyhow::Error>
StatusResponses(indexer) ==
    {[ok |-> FALSE, statuses |-> <<>>]}
    \cup {[ok |-> TRUE, statuses |-> st] :
             st \in SeqsUpTo(StatusChoices(indexer), MaxStatusesPerIndexer)}

MetricLabels == IndexerAddresses \X {"0", "1"}

\* metrics.indexing_statuses_requests.get_metric_with_label_values(..).inc()
MetricInc(metrics, address, outcome) ==
    [metrics EXCEPT ![<<address, outcome>>] = @ + 1]

EmptyAcc ==
    [statuses |-> <<>>, successes |-> 0, failures |-> 0,
     metrics |-> [l \in MetricLabels |-> 0]]

\* mutation: an error discards what was collected so far
FoldResultDropOnError(acc, indexer, query_result) ==
    IF query_result.ok
    THEN [statuses  |-> acc.statuses \o query_result.statuses,
          successes |-> acc.successes + 1,
          failures  |-> acc.failures,
          metrics   |-> MetricInc(acc.metrics, address_string(indexer), "1")]
    ELSE [statuses  |-> <<>>,
          successes |-> acc.successes,
          failures  |-> acc.failures + 1,
          metrics   |-> MetricInc(acc.metrics, address_string(indexer), "0")]

\* mutation: the failure branch counts the indexer under the success label
FoldResultWrongLabel(acc, indexer, query_result) ==
    IF query_result.ok
    THEN [statuses  |-> acc.statuses \o query_result.statuses,
          successes |-> acc.successes + 1,
          failures  |-> acc.failures,
          metrics   |-> MetricInc(acc.metrics, address_string(indexer), "1")]
    ELSE [statuses  |-> acc.statuses,
          successes |-> acc.successes,
          failures  |-> acc.failures + 1,
          metrics   |-> MetricInc(acc.metrics, address_string(indexer), "1")]

\* one pass of `for (indexer, query_result) in indexing_statuses_results`
FoldResult(acc, indexer, query_result) ==
    IF query_result.ok
    THEN [statuses  |-> acc.statuses \o query_result.statuses,
          successes |-> acc.successes + 1,
          failures  |-> acc.failures,
          metrics   |-> MetricInc(acc.metrics, address_string(indexer), "1")]
    ELSE [statuses  |-> acc.statuses,
          successes |-> acc.successes,
          failures  |-> acc.failures + 1,
          metrics   |-> MetricInc(acc.metrics, address_string(indexer), "0")]

\* the FuturesOrdered variant: zip the results with the indexers,
\* filter_map(skip_errors), flatten
RECURSIVE LegacyQueryIndexingStatuses(_, _, _)
LegacyQueryIndexingStatuses(indexers, responses, i) ==
    IF i > Len(indexers) THEN <<>>
    ELSE (IF responses[i].ok THEN responses[i].statuses ELSE <<>>)
         \o LegacyQueryIndexingStatuses(indexers, responses, i + 1)


(* -------------------------- BlockChoicePolicy -------------------------- *)
BlockChoicePolicies == {"MaxBlock", "MostSyncedBlocks"}

\* Option<u64>::None for a block number; Some(n) is n
NoBlock == 0 - 1

\* the latest_block.number of each status of a list
LatestNumbers(statuses) == {statuses[k].latest : k \in DOMAIN statuses}

MaxOf(S) == CHOOSE x \in S : \A y \in S : y <= x

MinOf(S) == CHOOSE x \in S : \A y \in S : x <= y

\* Option<u64> ordering: None is below every Some
OptionMax(acc, n) == IF acc = NoBlock \/ n >= acc THEN n ELSE acc

RECURSIVE MaxBlockFold(_, _, _)
MaxBlockFold(statuses, k, acc) ==
    IF k > Len(statuses) THEN acc
    ELSE MaxBlockFold(statuses, k + 1, OptionMax(acc, statuses[k].latest))

MaxBlockLast(statuses) ==
    IF Len(statuses) = 0 THEN NoBlock ELSE statuses[Len(statuses)].latest

\* MaxBlock: the maximum latest_block.number; none on an empty input
MaxBlock(statuses) ==
    MaxBlockFold(statuses, 1, NoBlock)

\* how many statuses report block number n
Plurality(statuses, n) == Cardinality({k \in DOMAIN statuses : statuses[k].latest = n})

\* the tally of the statuses per block number
RECURSIVE CountBlocks(_, _, _)
CountBlocks(statuses, k, counts) ==
    IF k > Len(statuses) THEN counts
    ELSE LET n == statuses[k].latest
             seen == DOMAIN counts
         IN  CountBlocks(statuses, k + 1,
                         [m \in seen \cup {n} |->
                             IF m = n THEN (IF n \in seen THEN counts[n] + 1 ELSE 1)
                             ELSE counts[m]])

\* the tally scanned by ascending block number, keeping the best so far
\* unless a strictly larger count turns up
RECURSIVE MostSyncedScan(_, _, _)
MostSyncedScan(counts, todo, best) ==
    IF todo = {} THEN best
    ELSE LET n == MinOf(todo)
         IN  MostSyncedScan(counts, todo \ {n},
                            IF best = NoBlock \/ counts[n] > counts[best] THEN n ELSE best)

RECURSIVE MostSyncedScanKeepLast(_, _, _)
MostSyncedScanKeepLast(counts, todo, best) ==
    IF todo = {} THEN best
    ELSE LET n == MinOf(todo)
         IN  MostSyncedScanKeepLast(counts, todo \ {n},
                            IF best = NoBlock \/ counts[n] >= counts[best] THEN n ELSE best)

MostSyncedBlocksHighestOnTie(statuses) ==
    LET counts == CountBlocks(statuses, 1, <<>>)
    IN  MostSyncedScanKeepLast(counts, DOMAIN counts, NoBlock)

\* MostSyncedBlocks: the number held by the largest plurality, lowest on a tie
MostSyncedBlocks(statuses) ==
    LET counts == CountBlocks(statuses, 1, <<>>)
    IN  MostSyncedScan(counts, DOMAIN counts, NoBlock)

choose_block(policy, statuses) ==
    IF policy = "MaxBlock" THEN MaxBlock(statuses) ELSE MostSyncedBlocks(statuses)

(* ------------------------------- Bytes32 -------------------------------- *)
\* a string is the sequence of its characters
HexDigits == <<"0", "1", "2", "3", "4", "5", "6", "7", "8", "9",
               "a", "b", "c", "d", "e", "f">>

UpperHexDigits == <<"0", "1", "2", "3", "4", "5", "6", "7", "8", "9",
                    "A", "B", "C", "D", "E", "F">>

\* hex::encode of one byte: two lower-case digits
EncodeByte(byte) == <<HexDigits[(byte \div 16) + 1], HexDigits[(byte % 16) + 1]>>

\* hex::encode
RECURSIVE HexEncode(_)
HexEncode(bytes) ==
    IF Len(bytes) = 0 THEN <<>> ELSE EncodeByte(Head(bytes)) \o HexEncode(Tail(bytes))

\* impl Display / Into<String> for Bytes32
Bytes32ToString(bytes) == HexEncode(bytes)

\* the value of a hex digit of either case, or NoBlock for any other character
DigitValue(c) ==
    IF \E i \in 1..16 : HexDigits[i] = c
    THEN (CHOOSE i \in 1..16 : HexDigits[i] = c) - 1
    ELSE IF \E i \in 1..16 : UpperHexDigits[i] = c
    THEN (CHOOSE i \in 1..16 : UpperHexDigits[i] = c) - 1
    ELSE NoBlock

HexErr == [ok |-> FALSE, bytes |-> <<>>]

\* hex::decode: an error on an odd length or on a character that is no digit
RECURSIVE DecodePairs(_)
DecodePairs(s) ==
    IF Len(s) = 0 THEN <<>>
    ELSE <<DigitValue(s[1]) * 16 + DigitValue(s[2])>> \o DecodePairs(SubSeq(s, 3, Len(s)))

HexDecode(s) ==
    IF Len(s) % 2 = 1 THEN HexErr
    ELSE IF \E k \in DOMAIN s : DigitValue(s[k]) = NoBlock THEN HexErr
    ELSE [ok |-> TRUE, bytes |-> DecodePairs(s)]

\* str::trim_start_matches("0x"): every repetition of the prefix is removed
RECURSIVE TrimStartMatches0x(_)
TrimStartMatches0x(s) ==
    IF Len(s) >= 2 /\ s[1] = "0" /\ s[2] = "x"
    THEN TrimStartMatches0x(SubSeq(s, 3, Len(s)))
    ELSE s

\* impl TryFrom<&str> for Bytes32
Bytes32TryFrom(s) == HexDecode(TrimStartMatches0x(s))

\* byte values and wire characters the conversions are run on
ByteValues == {0, 10, 171, 255}

WireChars == {"0", "x", "a", "F", "g"}

(* ---------------------- query_proofs_of_indexing ----------------------- *)
IndexerEqByAddress(a, b) == a.address = b.address

\* impl PartialEq / Hash for dyn Indexer: by id()
IndexerEq(a, b) == a.id = b.id

\* impl Hash for dyn Indexer: what is fed to the hasher
IndexerHash(a) == a.id

\* indexers the PoI collector is run on
PoiIndexers ==
    {[id |-> "i1", address |-> "0x01"],
     [id |-> "i2", address |-> "0x02"]}

LatestBlockNumbers == 1..MaxLatest

IndexingStatus ==
    [indexer : PoiIndexers, deployment : Deployments, latest : LatestBlockNumbers]

\* Bytes32 values an indexer may answer with
PoiBytes == {"0xaa", "0xbb"}

\* `indexers`: the HashSet of the statuses' indexers
IndexersOf(statuses) == {statuses[k].indexer : k \in DOMAIN statuses}

\* `deployments`: the HashSet of the statuses' deployments
DeploymentsOf(statuses) == {statuses[k].deployment : k \in DOMAIN statuses}

StatusesByDeploymentFirstOnly(statuses, deployment) ==
    LET all == SelectSeq(statuses, LAMBDA status : status.deployment = deployment)
    IN  IF Len(all) = 0 THEN all ELSE <<all[1]>>

\* `statuses_by_deployment[deployment]`
StatusesByDeployment(statuses, deployment) ==
    SelectSeq(statuses, LAMBDA status : status.deployment = deployment)

\* `latest_blocks`: deployment -> Option<u64> chosen by the policy
LatestBlocks(statuses, policy) ==
    [d \in DeploymentsOf(statuses) |->
        choose_block(policy, StatusesByDeployment(statuses, d))]

SomeGeStrict(number, block_number) ==
    block_number = NoBlock \/ number > block_number

\* Some(number) >= block_number on Option<u64>: None is below every Some
SomeGe(number, block_number) ==
    block_number = NoBlock \/ number >= block_number

\* mutation: the indexer's own latest block is not compared with the target
StatusCoversAnyBlock(status, indexer, block_number) ==
    IndexerEq(status.indexer, indexer)

\* the closure of `.any(..)`: this indexer has reached the target block
StatusCovers(status, indexer, block_number) ==
    /\ IndexerEq(status.indexer, indexer)
    /\ SomeGe(status.latest, block_number)

\* `poi_requests` of one indexer: filter, then filter_map
PoiRequests(statuses, policy, indexer) ==
    LET latest_blocks == LatestBlocks(statuses, policy)
        kept == {d \in DOMAIN latest_blocks :
                    LET by_deployment == StatusesByDeployment(statuses, d) IN
                    \E k \in DOMAIN by_deployment :
                        StatusCovers(by_deployment[k], indexer, latest_blocks[d])}
    IN  {[deployment |-> d, block_number |-> latest_blocks[d]] :
            d \in {e \in kept : latest_blocks[e] # NoBlock}}

\* the elements the `poi_requests` Vec collects while latest_blocks.iter()
\* goes through the deployments `todo`: one per entry that passes both filters
RECURSIVE CollectRequests(_, _, _, _)
CollectRequests(statuses, latest_blocks, indexer, todo) ==
    IF todo = {} THEN EmptyBag
    ELSE LET d == CHOOSE e \in todo : TRUE
             by_deployment == StatusesByDeployment(statuses, d)
             rest == CollectRequests(statuses, latest_blocks, indexer, todo \ {d})
         IN  IF /\ \E k \in DOMAIN by_deployment :
                      StatusCovers(by_deployment[k], indexer, latest_blocks[d])
                /\ latest_blocks[d] # NoBlock
             THEN rest (+) SetToBag({[deployment |-> d, block_number |-> latest_blocks[d]]})
             ELSE rest

\* mutation: a request is collected per status that passes, not per deployment
RECURSIVE PoiRequestVecPerStatus(_, _, _)
PoiRequestVecPerStatus(statuses, policy, indexer) ==
    IF Len(statuses) = 0 THEN EmptyBag
    ELSE LET status == statuses[Len(statuses)]
             target == choose_block(policy, StatusesByDeployment(statuses, status.deployment))
             rest == PoiRequestVecPerStatus(SubSeq(statuses, 1, Len(statuses) - 1), policy, indexer)
         IN  IF StatusCovers(status, indexer, target) /\ target # NoBlock
             THEN rest (+) SetToBag({[deployment |-> status.deployment, block_number |-> target]})
             ELSE rest

\* `poi_requests` of one indexer as the Vec that is collected, order left out
PoiRequestVec(statuses, policy, indexer) ==
    LET latest_blocks == LatestBlocks(statuses, policy)
    IN  CollectRequests(statuses, latest_blocks, indexer, DOMAIN latest_blocks)

\* every ordering of a finite set as a sequence
Orderings(S) ==
    {f \in [1..Cardinality(S) -> S] : \A x \in S : \E k \in DOMAIN f : f[k] = x}

\* the PoIs of one answer: a PoI per answered request, in the order given
AnsweredPois(indexer, order, bytes) ==
    [k \in DOMAIN order |->
        [indexer    |-> indexer,
         deployment |-> order[k].deployment,
         block      |-> order[k].block_number,
         poi        |-> bytes[order[k]]]]

\* what proofs_of_indexing(poi_requests) may resolve to: PoIs for any part
\* of the batch, in any order
PossibleAnswers(indexer, poi_requests) ==
    UNION {UNION {{AnsweredPois(indexer, order, bytes) : order \in Orderings(answered)} :
                     bytes \in [answered -> PoiBytes]} :
              answered \in SUBSET poi_requests}

(* ------------------- the functions as main calls them ------------------ *)
\* query_indexing_statuses: the fold over the results in completion order
RECURSIVE FoldResults(_, _, _, _, _)
FoldResults(indexers, responses, order, k, acc) ==
    IF k > Len(order) THEN acc
    ELSE FoldResults(indexers, responses, order, k + 1,
                     FoldResult(acc, indexers[order[k]], responses[order[k]]))

query_indexing_statuses(indexers, responses, order) ==
    FoldResults(indexers, responses, order, 1, EmptyAcc).statuses

\* .into_iter().flatten(): the answers concatenated in completion order
RECURSIVE FlattenAnswers(_, _, _)
FlattenAnswers(answers, order, k) ==
    IF k > Len(order) THEN <<>>
    ELSE answers[order[k]] \o FlattenAnswers(answers, order, k + 1)

\* every return value query_proofs_of_indexing can produce
query_proofs_of_indexing(statuses, policy) ==
    LET ixs == IndexersOf(statuses)
        answersets == [ix \in ixs |-> PossibleAnswers(ix, PoiRequests(statuses, policy, ix))]
        choices == {a \in [ixs -> UNION {answersets[ix] : ix \in ixs}] :
                       \A ix \in ixs : a[ix] \in answersets[ix]}
    IN  UNION {{FlattenAnswers(a, order, 1) : order \in Orderings(ixs)} : a \in choices}

(* ------------------------------- Store --------------------------------- *)
PoiLiveness == {"Live", "FromInvestigation"}

\* write_indexers: upsert by address
WriteIndexers(rows, indexers) ==
    LET written == {indexers[k] : k \in DOMAIN indexers} IN
    {r \in rows : \A w \in written : w.address # r.address} \cup written

\* write_graph_node_versions: one row per indexer of the map
WriteGraphNodeVersions(rows, indexers) ==
    rows \cup {indexers[k].id : k \in DOMAIN indexers}

PoiKey(row) == <<row.indexer.id, row.deployment, row.block>>

\* write_pois: upsert by (indexer, deployment, block.number), later rows win
RECURSIVE WritePois(_, _, _, _)
WritePois(rows, pois, liveness, k) ==
    IF k > Len(pois) THEN rows
    ELSE LET row == [indexer |-> pois[k].indexer, deployment |-> pois[k].deployment,
                     block |-> pois[k].block, poi |-> pois[k].poi,
                     liveness |-> liveness]
         IN  WritePois({r \in rows : PoiKey(r) # PoiKey(row)} \cup {row},
                       pois, liveness, k + 1)

(* ---------------------------- watch channel ---------------------------- *)
\* watch::channel(vec![])
NewChannel == [value |-> <<>>, version |-> 0, receivers |-> 1]

\* mutation: a bounded queue of one slot, full until the receiver has read
SendResultBounded(channel, seen_version) ==
    IF channel.receivers = 0 THEN "closed"
    ELSE IF channel.version # seen_version THEN "full"
    ELSE "ok"

\* Sender::send: fails only when every receiver is gone; never waits
SendResult(channel, seen_version) ==
    IF channel.receivers = 0 THEN "closed" ELSE "ok"

\* a successful send replaces the value and bumps the version
Sent(channel, value) ==
    [channel EXCEPT !.value = value, !.version = @ + 1]

(* ------------------------------ main loop ------------------------------ *)
\* indexers the configuration sources may yield
MainIndexers ==
    {[id |-> "i1", address |-> "0x01"],
     [id |-> "i2", address |-> "0x02"],
     [id |-> "i3", address |-> "0x01"]}

\* what an indexer answers to indexing_statuses() during the main loop
MainStatusResponses(indexer) ==
    {[ok |-> FALSE, statuses |-> <<>>]}
    \cup {[ok |-> TRUE, statuses |-> st] :
             st \in SeqsUpTo({[indexer |-> indexer, deployment |-> "QmA", latest |-> 1]}, 1)}

Event(op, indexers) == [op |-> op, indexers |-> indexers]

(* ------------------------------ bisection ------------------------------ *)
BlockNumbers == 0..MaxBlockNumber

\* u64 arithmetic: the number of values of the type
Modulus == MaxBlockNumber + 1

WrappingSub(a, b) == (a - b + Modulus) % Modulus

WrappingAdd(a, b) == (a + b) % Modulus

Unknown == "unknown"

FetchFailed == "failed"

NoReport == [status |-> "none"]

Max(a, b) == IF a >= b THEN a ELSE b

\* low = max(earliest_a, earliest_b) before the loop
InitialLow(req) == Max(req.earliest_a, req.earliest_b)

\* mutation: low is reported as last common block even when it is not below high
FinalReportLowAsDivergent(low, high) ==
    [status |-> "complete",
     first_divergent_block |-> low,
     last_common_block |-> IF low < high THEN low ELSE NoBlock]

FinalReportAlwaysLow(low, high) ==
    [status |-> "complete", first_divergent_block |-> high, last_common_block |-> low]

\* emit Report(first_divergent_block = high,
\*             last_common_block = (low if low < high else none))
FinalReport(low, high) ==
    [status |-> "complete",
     first_divergent_block |-> high,
     last_common_block |-> IF low < high THEN low ELSE NoBlock]

\* the partial report persisted on PartialFailure(mid)
PartialReportComplete(mid) ==
    [status |-> "complete", failed_at |-> mid]

PartialReport(mid) ==
    [status |-> "incomplete", failed_at |-> mid]

ProbeRowsLive(mid, poi_a, poi_b) ==
    {[indexer |-> "a", block |-> mid, poi |-> poi_a, liveness |-> "Live"] :
        x \in IF poi_a = FetchFailed THEN {} ELSE {1}}
    \cup
    {[indexer |-> "b", block |-> mid, poi |-> poi_b, liveness |-> "FromInvestigation"] :
        x \in IF poi_b = FetchFailed THEN {} ELSE {1}}

\* the rows persisted for one probe: a FromInvestigation row per PoI fetched
ProbeRows(mid, poi_a, poi_b) ==
    {[indexer |-> "a", block |-> mid, poi |-> poi_a, liveness |-> "FromInvestigation"] :
        x \in IF poi_a = FetchFailed THEN {} ELSE {1}}
    \cup
    {[indexer |-> "b", block |-> mid, poi |-> poi_b, liveness |-> "FromInvestigation"] :
        x \in IF poi_b = FetchFailed THEN {} ELSE {1}}

\* what a fetch of a block may return: the PoI already determined for the
\* block, or any PoI if none is, or a failure
FetchResults(known) ==
    {FetchFailed} \cup (IF known = Unknown THEN PoiBytes ELSE {known})

(* ------------------------- idle components ----------------------------- *)
DedupIdle ==
    /\ dd_pc = "idle"
    /\ dd_input = <<>>
    /\ dd_output = <<>>

StatusIdle ==
    /\ qs_pc = "idle"
    /\ qs_indexers = <<>>
    /\ qs_responses = <<>>
    /\ qs_results = <<>>
    /\ qs_folded = {}
    /\ qs_acc = EmptyAcc
    /\ qs_legacy = <<>>

PoiIdle ==
    /\ qp_pc = "idle"
    /\ qp_statuses = <<>>
    /\ qp_policy = "MaxBlock"
    /\ qp_requests = <<>>
    /\ qp_pending = {}
    /\ qp_pois = <<>>
    /\ qp_calls = [ix \in PoiIndexers |-> 0]
    /\ qp_batches = <<>>

LoopIdle ==
    /\ ml_pc = "idle"
    /\ ml_iter = 0
    /\ ml_policy = "MaxBlock"
    /\ ml_indexers = <<>>
    /\ ml_statuses = <<>>
    /\ ml_pois = <<>>
    /\ ml_events = <<>>
    /\ ml_errors = <<>>
    /\ ml_exit = None
    /\ store_indexers = {}
    /\ store_versions = {}
    /\ store_pois = {}
    /\ chan = NewChannel
    /\ inv_pc = "ended"
    /\ inv_snapshot = [version |-> 0, value |-> <<>>]

BisectIdle ==
    /\ bs_pc = "idle"
    /\ bs_req = [upper |-> 0, earliest_a |-> 0, earliest_b |-> 0]
    /\ bs_checked = FALSE
    /\ bs_low = 0
    /\ bs_high = 0
    /\ bs_poi_a = <<>>
    /\ bs_poi_b = <<>>
    /\ bs_probed = <<>>
    /\ bs_written = {}
    /\ bs_live = {}
    /\ bs_report = NoReport

PolicyIdle ==
    /\ pl_pc = "idle"
    /\ pl_policy = "MaxBlock"
    /\ pl_statuses = <<>>
    /\ pl_result = NoBlock
    /\ pl_reordered = <<>>
    /\ pl_reresult = NoBlock

EqIdle ==
    /\ eq_pc = "idle"
    /\ eq_a = [id |-> "i1", address |-> None]
    /\ eq_b = [id |-> "i1", address |-> None]
    /\ eq_result = FALSE
    /\ eq_hash_a = None
    /\ eq_hash_b = None

HexIdle ==
    /\ hx_pc = "idle"
    /\ hx_value = <<>>
    /\ hx_prefixed = FALSE
    /\ hx_string = <<>>
    /\ hx_result = HexErr

PureIdle ==
    /\ PolicyIdle
    /\ EqIdle
    /\ HexIdle

(* ------------------ specification: deduplicate_indexers ---------------- *)
InitDedup ==
    /\ dd_pc = "called"
    /\ dd_input \in SeqsUpTo(Indexer, MaxList)
    /\ dd_output = <<>>
    /\ StatusIdle
    /\ PoiIdle
    /\ LoopIdle
    /\ BisectIdle
    /\ PureIdle

DedupReturn ==
    /\ dd_pc = "called"
    /\ dd_output' = deduplicate_indexers(dd_input)
    /\ dd_pc' = "returned"
    /\ UNCHANGED dd_input
    /\ UNCHANGED <<statusVars, poiVars, loopVars, bisectVars, pureVars>>

NextDedup == DedupReturn

SpecDedup == InitDedup /\ [][NextDedup]_vars

(* ---------------- specification: query_indexing_statuses --------------- *)
InitStatus ==
    /\ qs_pc = "querying"
    /\ qs_indexers \in SeqsUpTo(StatusIndexers, MaxIndexers)
    /\ qs_responses \in [DOMAIN qs_indexers -> UNION {StatusResponses(ix) : ix \in StatusIndexers}]
    /\ \A i \in DOMAIN qs_indexers : qs_responses[i] \in StatusResponses(qs_indexers[i])
    /\ qs_results = <<>>
    /\ qs_folded = {}
    /\ qs_acc = EmptyAcc
    /\ qs_legacy = <<>>
    /\ DedupIdle
    /\ PoiIdle
    /\ LoopIdle
    /\ BisectIdle
    /\ PureIdle

\* one future of the FuturesUnordered resolves (any order)
StatusQueryCompletes(i) ==
    /\ qs_pc = "querying"
    /\ i \in DOMAIN qs_indexers
    /\ \A k \in DOMAIN qs_results : qs_results[k] # i
    /\ qs_results' = Append(qs_results, i)
    /\ UNCHANGED <<qs_pc, qs_indexers, qs_responses, qs_folded, qs_acc, qs_legacy>>
    /\ UNCHANGED <<dedupVars, poiVars, loopVars, bisectVars, pureVars>>

\* .collect::<Vec<_>>().await returns once every future has resolved
StatusAllCollected ==
    /\ qs_pc = "querying"
    /\ Len(qs_results) = Len(qs_indexers)
    /\ qs_pc' = "folding"
    /\ UNCHANGED <<qs_indexers, qs_responses, qs_results, qs_folded, qs_acc, qs_legacy>>
    /\ UNCHANGED <<dedupVars, poiVars, loopVars, bisectVars, pureVars>>

StatusFoldNext ==
    /\ qs_pc = "folding"
    /\ qs_results # <<>>
    /\ LET i == Head(qs_results) IN
        /\ qs_acc' = FoldResult(qs_acc, qs_indexers[i], qs_responses[i])
        /\ qs_folded' = qs_folded \cup {i}
    /\ qs_results' = Tail(qs_results)
    /\ UNCHANGED <<qs_pc, qs_indexers, qs_responses, qs_legacy>>
    /\ UNCHANGED <<dedupVars, poiVars, loopVars, bisectVars, pureVars>>

\* assert_eq!(query_failures + query_successes, indexers.len()); return
StatusReturn ==
    /\ qs_pc = "folding"
    /\ qs_results = <<>>
    /\ qs_acc.failures + qs_acc.successes = Len(qs_indexers)
    /\ qs_pc' = "returned"
    /\ UNCHANGED <<qs_indexers, qs_responses, qs_results, qs_folded, qs_acc, qs_legacy>>
    /\ UNCHANGED <<dedupVars, poiVars, loopVars, bisectVars, pureVars>>

\* the FuturesOrdered variant run on the same indexers and responses
StatusLegacyReturn ==
    /\ qs_pc = "returned"
    /\ qs_legacy' = LegacyQueryIndexingStatuses(qs_indexers, qs_responses, 1)
    /\ qs_pc' = "done"
    /\ UNCHANGED <<qs_indexers, qs_responses, qs_results, qs_folded, qs_acc>>
    /\ UNCHANGED <<dedupVars, poiVars, loopVars, bisectVars, pureVars>>

NextStatus ==
    \/ \E i \in 1..MaxIndexers : StatusQueryCompletes(i)
    \/ StatusAllCollected
    \/ StatusFoldNext
    \/ StatusReturn
    \/ StatusLegacyReturn

SpecStatus == InitStatus /\ [][NextStatus]_vars

(* --------------- specification: query_proofs_of_indexing --------------- *)
InitPoi ==
    /\ qp_pc = "called"
    /\ qp_statuses \in SeqsUpTo(IndexingStatus, MaxStatuses)
    /\ qp_policy \in BlockChoicePolicies
    /\ qp_requests = <<>>
    /\ qp_pending = {}
    /\ qp_pois = <<>>
    /\ qp_calls = [ix \in PoiIndexers |-> 0]
    /\ qp_batches = <<>>
    /\ DedupIdle
    /\ StatusIdle
    /\ LoopIdle
    /\ BisectIdle
    /\ PureIdle

\* lines 152-211: one future per indexer of the HashSet, each with its batch
PoiBuildRequests ==
    /\ qp_pc = "called"
    /\ qp_requests' = [ix \in IndexersOf(qp_statuses) |->
                          PoiRequests(qp_statuses, qp_policy, ix)]
    /\ qp_pending' = IndexersOf(qp_statuses)
    /\ qp_pc' = "querying"
    /\ qp_batches' = [ix \in IndexersOf(qp_statuses) |->
                         PoiRequestVec(qp_statuses, qp_policy, ix)]
    /\ UNCHANGED <<qp_statuses, qp_policy, qp_pois, qp_calls>>
    /\ UNCHANGED <<dedupVars, statusVars, loopVars, bisectVars, pureVars>>

\* one indexer's proofs_of_indexing(poi_requests) resolves: it answers any
\* part of its batch, in any order
PoiIndexerAnswers(indexer) ==
    /\ qp_pc = "querying"
    /\ indexer \in qp_pending
    /\ \E pois \in PossibleAnswers(indexer, qp_requests[indexer]) :
           qp_pois' = qp_pois \o pois
    /\ qp_calls' = [qp_calls EXCEPT ![indexer] = @ + 1]
    /\ qp_pending' = qp_pending \ {indexer}
    /\ UNCHANGED <<qp_pc, qp_statuses, qp_policy, qp_requests, qp_batches>>
    /\ UNCHANGED <<dedupVars, statusVars, loopVars, bisectVars, pureVars>>

\* the FuturesUnordered is exhausted; flatten and return
PoiReturn ==
    /\ qp_pc = "querying"
    /\ qp_pending = {}
    /\ qp_pc' = "returned"
    /\ UNCHANGED <<qp_statuses, qp_policy, qp_requests, qp_pending, qp_pois, qp_calls,
                   qp_batches>>
    /\ UNCHANGED <<dedupVars, statusVars, loopVars, bisectVars, pureVars>>

NextPoi ==
    \/ PoiBuildRequests
    \/ \E indexer \in PoiIndexers : PoiIndexerAnswers(indexer)
    \/ PoiReturn

SpecPoi == InitPoi /\ [][NextPoi]_vars

(* ----------------- specification: main loop + investigator ------------- *)
Init ==
    /\ ml_pc = "config_to_indexers"
    /\ ml_iter = 1
    /\ ml_policy \in BlockChoicePolicies
    /\ ml_indexers = <<>>
    /\ ml_statuses = <<>>
    /\ ml_pois = <<>>
    /\ ml_events = <<>>
    /\ ml_errors = <<>>
    /\ ml_exit = None
    /\ store_indexers = {}
    /\ store_versions = {}
    /\ store_pois = {}
    /\ chan = NewChannel
    /\ inv_pc = "running"
    /\ inv_snapshot = [version |-> 0, value |-> <<>>]
    /\ DedupIdle
    /\ StatusIdle
    /\ PoiIdle
    /\ BisectIdle
    /\ PureIdle

\* `?` on an Err: main returns the error
MainReturnsErr(op) ==
    /\ ml_pc' = "exited"
    /\ ml_exit' = op
    /\ ml_errors' = Append(ml_errors, op)

\* line 97-100: config_to_indexers(..).await?, then deduplicate_indexers
MainBuildIndexers ==
    /\ ml_pc = "config_to_indexers"
    /\ \/ /\ MainReturnsErr("config_to_indexers")
          /\ UNCHANGED ml_indexers
       \/ /\ \E built \in SeqsUpTo(MainIndexers, MaxConfigured) :
                 ml_indexers' = deduplicate_indexers(built)
          /\ ml_pc' = "write_indexers"
          /\ UNCHANGED <<ml_exit, ml_errors>>
    /\ UNCHANGED <<ml_iter, ml_policy, ml_statuses, ml_pois, ml_events,
                   store_indexers, store_versions, store_pois,
                   chan, inv_pc, inv_snapshot>>
    /\ UNCHANGED <<dedupVars, statusVars, poiVars, bisectVars, pureVars>>

\* mutation: a failed write is logged and the loop goes on to publish
MainWriteIndexersLogOnly ==
    /\ ml_pc = "write_indexers"
    /\ \/ /\ ml_errors' = Append(ml_errors, "write_indexers")
          /\ UNCHANGED <<store_indexers, ml_events>>
       \/ /\ store_indexers' = WriteIndexers(store_indexers, ml_indexers)
          /\ ml_events' = Append(ml_events, Event("write_indexers", ml_indexers))
          /\ UNCHANGED ml_errors
    /\ ml_pc' = "send"
    /\ UNCHANGED <<ml_iter, ml_policy, ml_indexers, ml_statuses, ml_pois, ml_exit,
                   store_versions, store_pois, chan, inv_pc, inv_snapshot>>
    /\ UNCHANGED <<dedupVars, statusVars, poiVars, bisectVars, pureVars>>

\* line 102: store.write_indexers(&indexers).await?
MainWriteIndexers ==
    /\ ml_pc = "write_indexers"
    /\ \/ /\ MainReturnsErr("write_indexers")
          /\ UNCHANGED <<store_indexers, ml_events>>
       \/ /\ store_indexers' = WriteIndexers(store_indexers, ml_indexers)
          /\ ml_events' = Append(ml_events, Event("write_indexers", ml_indexers))
          /\ ml_pc' = "send"
          /\ UNCHANGED <<ml_exit, ml_errors>>
    /\ UNCHANGED <<ml_iter, ml_policy, ml_indexers, ml_statuses, ml_pois,
                   store_versions, store_pois, chan, inv_pc, inv_snapshot>>
    /\ UNCHANGED <<dedupVars, statusVars, poiVars, bisectVars, pureVars>>

\* line 104: tx_indexers.send(indexers.clone())?
MainSend ==
    /\ ml_pc = "send"
    /\ SendResult(chan, inv_snapshot.version) # "full"
    /\ \/ /\ SendResult(chan, inv_snapshot.version) = "closed"
          /\ MainReturnsErr("send")
          /\ UNCHANGED <<chan, ml_events>>
       \/ /\ SendResult(chan, inv_snapshot.version) = "ok"
          /\ chan' = Sent(chan, ml_indexers)
          /\ ml_events' = Append(ml_events, Event("publish", ml_indexers))
          /\ ml_pc' = "graph_node_versions"
          /\ UNCHANGED <<ml_exit, ml_errors>>
    /\ UNCHANGED <<ml_iter, ml_policy, ml_indexers, ml_statuses, ml_pois,
                   store_indexers, store_versions, store_pois, inv_pc, inv_snapshot>>
    /\ UNCHANGED <<dedupVars, statusVars, poiVars, bisectVars, pureVars>>

\* line 106-108: query_graph_node_versions, then write_graph_node_versions(..).await?
MainGraphNodeVersions ==
    /\ ml_pc = "graph_node_versions"
    /\ \/ /\ MainReturnsErr("write_graph_node_versions")
          /\ UNCHANGED <<store_versions, ml_events>>
       \/ /\ store_versions' = WriteGraphNodeVersions(store_versions, ml_indexers)
          /\ ml_events' = Append(ml_events, Event("write_graph_node_versions", ml_indexers))
          /\ ml_pc' = "query_indexing_statuses"
          /\ UNCHANGED <<ml_exit, ml_errors>>
    /\ UNCHANGED <<ml_iter, ml_policy, ml_indexers, ml_statuses, ml_pois,
                   store_indexers, store_pois, chan, inv_pc, inv_snapshot>>
    /\ UNCHANGED <<dedupVars, statusVars, poiVars, bisectVars, pureVars>>

\* line 110: query_indexing_statuses(&indexers, metrics()).await
MainQueryIndexingStatuses ==
    /\ ml_pc = "query_indexing_statuses"
    /\ \E responses \in [DOMAIN ml_indexers ->
                            UNION {MainStatusResponses(ix) : ix \in MainIndexers}] :
         /\ \A i \in DOMAIN ml_indexers : responses[i] \in MainStatusResponses(ml_indexers[i])
         /\ \E order \in Orderings(DOMAIN ml_indexers) :
                ml_statuses' = query_indexing_statuses(ml_indexers, responses, order)
    /\ ml_pc' = "query_proofs_of_indexing"
    /\ UNCHANGED <<ml_iter, ml_policy, ml_indexers, ml_pois, ml_events, ml_errors, ml_exit,
                   store_indexers, store_versions, store_pois,
                   chan, inv_pc, inv_snapshot>>
    /\ UNCHANGED <<dedupVars, statusVars, poiVars, bisectVars, pureVars>>

\* line 113: query_proofs_of_indexing(indexing_statuses, config.block_choice_policy).await
MainQueryProofsOfIndexing ==
    /\ ml_pc = "query_proofs_of_indexing"
    /\ ml_pois' \in query_proofs_of_indexing(ml_statuses, ml_policy)
    /\ ml_pc' = "write_pois"
    /\ UNCHANGED <<ml_iter, ml_policy, ml_indexers, ml_statuses, ml_events, ml_errors, ml_exit,
                   store_indexers, store_versions, store_pois,
                   chan, inv_pc, inv_snapshot>>
    /\ UNCHANGED <<dedupVars, statusVars, poiVars, bisectVars, pureVars>>

\* mutation: the rows are written with the investigation's provenance
MainWritePoisFromInvestigation ==
    /\ ml_pc = "write_pois"
    /\ \/ /\ ml_errors' = Append(ml_errors, "write_pois")
          /\ UNCHANGED <<store_pois, ml_events>>
       \/ /\ store_pois' = WritePois(store_pois, ml_pois, "FromInvestigation", 1)
          /\ ml_events' = Append(ml_events, Event("write_pois", ml_indexers))
          /\ UNCHANGED ml_errors
    /\ ml_pc' = "sleep"
    /\ UNCHANGED <<ml_iter, ml_policy, ml_indexers, ml_statuses, ml_pois, ml_exit,
                   store_indexers, store_versions, chan, inv_pc, inv_snapshot>>
    /\ UNCHANGED <<dedupVars, statusVars, poiVars, bisectVars, pureVars>>

\* line 117-120: store.write_pois(pois, PoiLiveness::Live).await.err() is logged
MainWritePois ==
    /\ ml_pc = "write_pois"
    /\ \/ /\ ml_errors' = Append(ml_errors, "write_pois")
          /\ UNCHANGED <<store_pois, ml_events>>
       \/ /\ store_pois' = WritePois(store_pois, ml_pois, "Live", 1)
          /\ ml_events' = Append(ml_events, Event("write_pois", ml_indexers))
          /\ UNCHANGED ml_errors
    /\ ml_pc' = "sleep"
    /\ UNCHANGED <<ml_iter, ml_policy, ml_indexers, ml_statuses, ml_pois, ml_exit,
                   store_indexers, store_versions, chan, inv_pc, inv_snapshot>>
    /\ UNCHANGED <<dedupVars, statusVars, poiVars, bisectVars, pureVars>>

\* line 126: the sleep ends and the next iteration starts with fresh locals
MainSleepEnds ==
    /\ ml_pc = "sleep"
    /\ ml_iter < MaxIterations
    /\ ml_iter' = ml_iter + 1
    /\ ml_pc' = "config_to_indexers"
    /\ ml_indexers' = <<>>
    /\ ml_statuses' = <<>>
    /\ ml_pois' = <<>>
    /\ ml_events' = <<>>
    /\ ml_errors' = <<>>
    /\ UNCHANGED <<ml_policy, ml_exit, store_indexers, store_versions, store_pois,
                   chan, inv_pc, inv_snapshot>>
    /\ UNCHANGED <<dedupVars, statusVars, poiVars, bisectVars, pureVars>>

\* the investigator task reads the channel: it gets the current value
InvestigatorReads ==
    /\ inv_pc = "running"
    /\ inv_snapshot' = [version |-> chan.version, value |-> chan.value]
    /\ UNCHANGED <<ml_pc, ml_iter, ml_policy, ml_indexers, ml_statuses, ml_pois,
                   ml_events, ml_errors, ml_exit,
                   store_indexers, store_versions, store_pois, chan, inv_pc>>
    /\ UNCHANGED <<dedupVars, statusVars, poiVars, bisectVars, pureVars>>

\* line 87-91: the spawned task returns or panics (.unwrap()); its receiver is dropped
InvestigatorEnds ==
    /\ inv_pc = "running"
    /\ inv_pc' = "ended"
    /\ chan' = [chan EXCEPT !.receivers = 0]
    /\ UNCHANGED <<ml_pc, ml_iter, ml_policy, ml_indexers, ml_statuses, ml_pois,
                   ml_events, ml_errors, ml_exit,
                   store_indexers, store_versions, store_pois, inv_snapshot>>
    /\ UNCHANGED <<dedupVars, statusVars, poiVars, bisectVars, pureVars>>

Next ==
    \/ MainBuildIndexers
    \/ MainWriteIndexers
    \/ MainSend
    \/ MainGraphNodeVersions
    \/ MainQueryIndexingStatuses
    \/ MainQueryProofsOfIndexing
    \/ MainWritePois
    \/ MainSleepEnds
    \/ InvestigatorReads
    \/ InvestigatorEnds

Spec == Init /\ [][Next]_vars

(* ----------------------- specification: bisection ---------------------- *)
\* a request (indexer_a, indexer_b, deployment, upper_block_number) whose
\* indexers disagree at upper_block_number, and the two earliest blocks
InitBisect ==
    /\ bs_pc = "loop"
    /\ bs_req \in [upper : BlockNumbers, earliest_a : BlockNumbers, earliest_b : BlockNumbers]
    /\ bs_checked \in BOOLEAN
    /\ bs_low = InitialLow(bs_req)
    /\ bs_high = bs_req.upper
    /\ \E at_low_a, at_low_b \in PoiBytes :
          /\ bs_poi_a = [n \in BlockNumbers |->
                            IF n = bs_req.upper THEN "0xaa"
                            ELSE IF n = InitialLow(bs_req) THEN at_low_a ELSE Unknown]
          /\ bs_poi_b = [n \in BlockNumbers |->
                            IF n = bs_req.upper THEN "0xbb"
                            ELSE IF n = InitialLow(bs_req) THEN at_low_b ELSE Unknown]
    /\ bs_probed = <<>>
    /\ bs_written = {}
    /\ bs_live = {bs_req.upper}
    /\ bs_report = NoReport
    /\ DedupIdle
    /\ StatusIdle
    /\ PoiIdle
    /\ LoopIdle
    /\ PureIdle

\* `high - low` (or `low + ..`) overflows in a build that checks overflow
BisectPanics ==
    /\ bs_pc = "loop"
    /\ bs_checked
    /\ \/ bs_high < bs_low
       \/ bs_low + (WrappingSub(bs_high, bs_low) \div 2) > MaxBlockNumber
    /\ bs_pc' = "panicked"
    /\ UNCHANGED <<bs_req, bs_checked, bs_low, bs_high, bs_poi_a, bs_poi_b,
                   bs_probed, bs_written, bs_live, bs_report>>
    /\ UNCHANGED <<dedupVars, statusVars, poiVars, loopVars, pureVars>>

\* one pass of `while high - low > 1`: probe mid, persist, compare
BisectProbe ==
    /\ bs_pc = "loop"
    /\ bs_checked => bs_high >= bs_low
    /\ WrappingSub(bs_high, bs_low) > 1
    /\ bs_checked => bs_low + (WrappingSub(bs_high, bs_low) \div 2) <= MaxBlockNumber
    /\ LET mid == WrappingAdd(bs_low, WrappingSub(bs_high, bs_low) \div 2) IN
       \E poi_a \in FetchResults(bs_poi_a[mid]), poi_b \in FetchResults(bs_poi_b[mid]) :
          /\ bs_probed' = Append(bs_probed, mid)
          /\ bs_written' = bs_written \cup ProbeRows(mid, poi_a, poi_b)
          /\ bs_poi_a' = IF poi_a = FetchFailed THEN bs_poi_a
                         ELSE [bs_poi_a EXCEPT ![mid] = poi_a]
          /\ bs_poi_b' = IF poi_b = FetchFailed THEN bs_poi_b
                         ELSE [bs_poi_b EXCEPT ![mid] = poi_b]
          /\ IF poi_a = FetchFailed \/ poi_b = FetchFailed
             THEN /\ bs_pc' = "partial_failure"
                  /\ bs_report' = PartialReport(mid)
                  /\ UNCHANGED <<bs_low, bs_high>>
             ELSE /\ bs_pc' = "loop"
                  /\ bs_report' = bs_report
                  /\ IF poi_a = poi_b
                     THEN bs_low' = mid /\ bs_high' = bs_high
                     ELSE bs_high' = mid /\ bs_low' = bs_low
    /\ UNCHANGED <<bs_req, bs_checked, bs_live>>
    /\ UNCHANGED <<dedupVars, statusVars, poiVars, loopVars, pureVars>>

\* the loop condition is false: emit the report
BisectEmitReport ==
    /\ bs_pc = "loop"
    /\ bs_checked => bs_high >= bs_low
    /\ WrappingSub(bs_high, bs_low) <= 1
    /\ bs_report' = FinalReport(bs_low, bs_high)
    /\ bs_pc' = "reported"
    /\ UNCHANGED <<bs_req, bs_checked, bs_low, bs_high, bs_poi_a, bs_poi_b,
                   bs_probed, bs_written, bs_live>>
    /\ UNCHANGED <<dedupVars, statusVars, poiVars, loopVars, pureVars>>

NextBisect ==
    \/ BisectPanics
    \/ BisectProbe
    \/ BisectEmitReport

SpecBisect == InitBisect /\ [][NextBisect]_vars

(* ------- specification: bisection with an earlier Live row in the Store ------ *)
\* as InitBisect, and write_pois has stored the Live PoIs of both indexers
\* at one more block, identical or differing
InitBisectStored ==
    /\ bs_pc = "loop"
    /\ bs_req \in [upper : BlockNumbers, earliest_a : BlockNumbers, earliest_b : BlockNumbers]
    /\ bs_checked \in BOOLEAN
    /\ bs_low = InitialLow(bs_req)
    /\ bs_high = bs_req.upper
    /\ \E at_low_a, at_low_b \in PoiBytes, stored \in BlockNumbers, stored_b \in PoiBytes :
          /\ bs_poi_a = [n \in BlockNumbers |->
                            IF n = bs_req.upper THEN "0xaa"
                            ELSE IF n = InitialLow(bs_req) THEN at_low_a
                            ELSE IF n = stored THEN "0xaa" ELSE Unknown]
          /\ bs_poi_b = [n \in BlockNumbers |->
                            IF n = bs_req.upper THEN "0xbb"
                            ELSE IF n = InitialLow(bs_req) THEN at_low_b
                            ELSE IF n = stored THEN stored_b ELSE Unknown]
          /\ bs_live = {bs_req.upper, stored}
    /\ bs_probed = <<>>
    /\ bs_written = {}
    /\ bs_report = NoReport
    /\ DedupIdle
    /\ StatusIdle
    /\ PoiIdle
    /\ LoopIdle
    /\ PureIdle

SpecBisectStored == InitBisectStored /\ [][NextBisect]_vars

(* ------------------------------ C1 ------------------------------------- *)
\* C1: an error of config_to_indexers or of a Store write (write_indexers,
\* write_graph_node_versions, write_pois) abandons the iteration only; main
\* never returns because of one.
C1_StoreAndBuildErrorsNeverEndTheLoop ==
    ml_exit \notin {"config_to_indexers", "write_indexers",
                    "write_graph_node_versions", "write_pois"}

(* ------------------------------ C6 ------------------------------------- *)
\* C6: within an iteration the set is published only after write_indexers
\* of that same set succeeded, and the graph-node-version and PoI writes
\* come only after the publish.
C6_WriteIndexersThenPublishThenWrites ==
    \A k \in DOMAIN ml_events :
        /\ ml_events[k].op = "publish" =>
               \E j \in 1..(k - 1) :
                   ml_events[j] = Event("write_indexers", ml_events[k].indexers)
        /\ ml_events[k].op \in {"write_graph_node_versions", "write_pois"} =>
               \E j \in 1..(k - 1) : ml_events[j].op = "publish"

\* a second iteration went through all four steps with a non-empty set
C6_Witness ==
    /\ ml_iter = 2
    /\ ml_pc = "sleep"
    /\ Len(ml_indexers) = 2
    /\ Len(ml_events) = 4
    /\ chan.value = ml_indexers

(* ------------------------------ C7 ------------------------------------- *)
LiveRow(poi) ==
    [indexer |-> poi.indexer, deployment |-> poi.deployment, block |-> poi.block,
     poi |-> poi.poi, liveness |-> "Live"]

\* C7 as claimed: when the sleep of an iteration begins, every PoI collected
\* in that iteration is in the Store with provenance Live.
C7_PoisLiveWhenSleepBegins ==
    ml_pc = "sleep" =>
        \A k \in DOMAIN ml_pois : LiveRow(ml_pois[k]) \in store_pois

\* C7 as amended: when the sleep of an iteration begins and write_pois did
\* not fail in that iteration, every PoI collected in it is in the Store
\* with provenance Live; a failed write_pois is logged and the sleep begins
\* all the same.
C7_PoisLiveWhenSleepBeginsUnlessWriteFailed ==
    ml_pc = "sleep" =>
        \/ \E e \in DOMAIN ml_errors : ml_errors[e] = "write_pois"
        \/ \A k \in DOMAIN ml_pois : LiveRow(ml_pois[k]) \in store_pois

\* the second iteration collected two PoIs and its write_pois succeeded
C7_Witness ==
    /\ ml_pc = "sleep"
    /\ ml_iter = 2
    /\ Len(ml_pois) = 2
    /\ ml_errors = <<>>
    /\ Cardinality(store_pois) = 2
    /\ \E k \in DOMAIN ml_events : ml_events[k].op = "write_pois"

(* ------------------------------ C8 ------------------------------------- *)
\* C8: the investigator never reads an older snapshot after a newer one,
\* and the main loop's send is never kept waiting, whatever the
\* investigator has read.
C8_MonotoneReadsAndNoBackpressure ==
    /\ [][inv_snapshot'.version >= inv_snapshot.version]_vars
    /\ [](ml_pc = "send" => ENABLED MainSend)

\* two sets were published while the investigator still holds the first one
C8_Witness ==
    /\ inv_pc = "running"
    /\ inv_snapshot.version = 1
    /\ chan.version = 2
    /\ chan.value # inv_snapshot.value

(* ---------------------------- C9, C10 ---------------------------------- *)
\* the request meets the preconditions of the bisection: both indexers have
\* the deployment at upper_block_number (it is not below an earliest block)
\* and their PoIs there differ
BisectPreconditions ==
    /\ bs_req.upper >= InitialLow(bs_req)
    /\ bs_poi_a[bs_req.upper] # bs_poi_b[bs_req.upper]

PoisDifferAt(n) == bs_poi_a[n] # bs_poi_b[n]

C10_LowAgreesHighDisagrees ==
    (bs_pc \in {"loop", "reported"} /\ BisectPreconditions) =>
        /\ PoisDifferAt(bs_high)
        /\ bs_low < bs_high => ~PoisDifferAt(bs_low)
        /\ (bs_pc = "reported" /\ bs_report.last_common_block # NoBlock) =>
               ~PoisDifferAt(bs_report.last_common_block)

(* --------------------------- C2, C3 ------------------------------------ *)
AllStatusChoices == UNION {StatusChoices(ix) : ix \in StatusIndexers}

\* how often status s was returned by the indexers at positions i.. that succeeded
RECURSIVE ReturnedBySuccesses(_, _)
ReturnedBySuccesses(s, i) ==
    IF i > Len(qs_indexers) THEN 0
    ELSE (IF qs_responses[i].ok THEN CountIn(qs_responses[i].statuses, s) ELSE 0)
         + ReturnedBySuccesses(s, i + 1)

SucceededPositions == {i \in DOMAIN qs_indexers : qs_responses[i].ok}

FailedPositions == {i \in DOMAIN qs_indexers : ~qs_responses[i].ok}

\* C2: whatever subset of the indexers fails, query_indexing_statuses returns
\* and its result holds exactly the statuses returned by the indexers that
\* succeeded, each as often as it was returned (both the FuturesUnordered
\* function and the FuturesOrdered variant).
C2_ExactlySuccessStatuses ==
    /\ qs_pc \in {"returned", "done"} =>
           \A s \in AllStatusChoices :
               CountIn(qs_acc.statuses, s) = ReturnedBySuccesses(s, 1)
    /\ qs_pc = "done" =>
           \A s \in AllStatusChoices :
               CountIn(qs_legacy, s) = ReturnedBySuccesses(s, 1)

\* the first indexer to resolve succeeded with two statuses, a later one failed
C2_Witness ==
    /\ qs_pc = "done"
    /\ Len(qs_indexers) = 2
    /\ FailedPositions = {2}
    /\ Len(qs_responses[1].statuses) = 2
    /\ Len(qs_acc.statuses) = 2
    /\ Len(qs_legacy) = 2

\* C3: the fold starts only when every indexer's query has resolved, every
\* indexer is counted exactly once (successes + failures = |indexers|) and
\* the metric (address, "1") / (address, "0") is incremented once per
\* succeeded / failed indexer with that address.
C3_EveryIndexerCountedOnce ==
    /\ qs_pc \in {"folding", "returned", "done"} =>
           /\ qs_folded \cup {qs_results[k] : k \in DOMAIN qs_results} = DOMAIN qs_indexers
           /\ Cardinality(qs_folded) + Len(qs_results) = Len(qs_indexers)
           /\ qs_acc.successes + qs_acc.failures = Cardinality(qs_folded)
    /\ qs_pc \in {"returned", "done"} =>
           /\ qs_acc.successes + qs_acc.failures = Len(qs_indexers)
           /\ qs_acc.successes = Cardinality(SucceededPositions)
           /\ qs_acc.failures = Cardinality(FailedPositions)
           /\ \A a \in IndexerAddresses :
                  /\ qs_acc.metrics[<<a, "1">>] =
                         Cardinality({i \in SucceededPositions : address_string(qs_indexers[i]) = a})
                  /\ qs_acc.metrics[<<a, "0">>] =
                         Cardinality({i \in FailedPositions : address_string(qs_indexers[i]) = a})

\* one success and one failure, both counted
C3_Witness ==
    /\ qs_pc = "returned"
    /\ qs_acc.successes = 1
    /\ qs_acc.failures = 1
    /\ qs_acc.metrics[<<address_string(qs_indexers[1]), "0">>] = 1
    /\ qs_acc.metrics[<<address_string(qs_indexers[2]), "1">>] = 1

(* ------------------------------ C4 ------------------------------------- *)
\* C4: every PoI collected in a round is backed by a status of that round
\* for the same indexer and deployment whose latest_block.number is at
\* least the PoI's block number.
C4_PoiBackedByStatus ==
    \A k \in DOMAIN qp_pois :
        \E j \in DOMAIN qp_statuses :
            /\ IndexerEq(qp_statuses[j].indexer, qp_pois[k].indexer)
            /\ qp_statuses[j].deployment = qp_pois[k].deployment
            /\ qp_statuses[j].latest >= qp_pois[k].block

\* one indexer is behind the chosen block and contributes no PoI, another
\* one has reached it and its PoI was collected
C4_Witness ==
    /\ qp_pc = "returned"
    /\ Len(qp_pois) = 1
    /\ \E j \in DOMAIN qp_statuses :
           /\ qp_statuses[j].deployment = qp_pois[1].deployment
           /\ qp_statuses[j].latest < qp_pois[1].block
           /\ ~IndexerEq(qp_statuses[j].indexer, qp_pois[1].indexer)

(* ------------------------------ C5 ------------------------------------- *)
\* positions of the input holding the first occurrence of their address
FirstPositions(s) ==
    {i \in 1..Len(s) : \A j \in 1..(i - 1) : s[j].address # s[i].address}

\* the k-th smallest element of a finite set of naturals
KthSmallest(P, k) ==
    CHOOSE p \in P : Cardinality({q \in P : q < p}) = k - 1

\* C5: deduplicate_indexers returns the first occurrence of each distinct
\* address, in input order: a subsequence of the input in which no two
\* indexers share an address.
C5_DedupFirstOccurrences ==
    dd_pc = "returned" =>
        LET P == FirstPositions(dd_input) IN
        /\ Len(dd_output) = Cardinality(P)
        /\ \A k \in 1..Len(dd_output) : dd_output[k] = dd_input[KthSmallest(P, k)]
        /\ \A k, l \in 1..Len(dd_output) :
               k # l => dd_output[k].address # dd_output[l].address

\* a duplicate address (with a different id) was dropped, an address-less
\* and an addressed indexer were kept
C5_Witness ==
    /\ dd_pc = "returned"
    /\ Len(dd_output) = 2
    /\ Len(dd_input) = 3
    /\ dd_input[1].address = dd_input[3].address
    /\ dd_input[1].id # dd_input[3].id
    /\ dd_input[2].address # dd_input[1].address

(* ------------------- specification: choose_block --------------------- *)
\* block numbers the policies are run on
PolicyBlockNumbers == {99, 100, 101}

PolicyStatus(n) ==
    [indexer |-> [id |-> "i1", address |-> "0x01"], deployment |-> "QmA", latest |-> n]

PolicyStatuses == {PolicyStatus(n) : n \in PolicyBlockNumbers}

\* b holds the elements of a in some order
IsReordering(a, b) ==
    /\ Len(a) = Len(b)
    /\ \A x \in PolicyStatuses : CountIn(a, x) = CountIn(b, x)

InitPolicy ==
    /\ pl_pc = "start"
    /\ pl_policy \in BlockChoicePolicies
    /\ pl_statuses \in SeqsUpTo(PolicyStatuses, MaxPolicyStatuses)
    /\ pl_result = NoBlock
    /\ pl_reordered = <<>>
    /\ pl_reresult = NoBlock
    /\ DedupIdle
    /\ StatusIdle
    /\ PoiIdle
    /\ LoopIdle
    /\ BisectIdle
    /\ EqIdle
    /\ HexIdle

\* block_choice_policy.choose_block(statuses.iter().copied())
PolicyChoose ==
    /\ pl_pc = "start"
    /\ pl_result' = choose_block(pl_policy, pl_statuses)
    /\ pl_pc' = "chosen"
    /\ UNCHANGED <<pl_policy, pl_statuses, pl_reordered, pl_reresult>>
    /\ UNCHANGED <<dedupVars, statusVars, poiVars, loopVars, bisectVars, eqVars, hexVars>>

\* the same call on the same statuses iterated in another order
PolicyChooseReordered ==
    /\ pl_pc = "chosen"
    /\ \E other \in SeqsUpTo(PolicyStatuses, MaxPolicyStatuses) :
          /\ IsReordering(pl_statuses, other)
          /\ pl_reordered' = other
          /\ pl_reresult' = choose_block(pl_policy, other)
    /\ pl_pc' = "rechosen"
    /\ UNCHANGED <<pl_policy, pl_statuses, pl_result>>
    /\ UNCHANGED <<dedupVars, statusVars, poiVars, loopVars, bisectVars, eqVars, hexVars>>

NextPolicy ==
    \/ PolicyChoose
    \/ PolicyChooseReordered

SpecPolicy == InitPolicy /\ [][NextPolicy]_vars

(* ------------- specification: Eq and Hash of dyn Indexer --------------- *)
InitEq ==
    /\ eq_pc = "start"
    /\ eq_a \in Indexer
    /\ eq_b \in Indexer
    /\ eq_result = FALSE
    /\ eq_hash_a = None
    /\ eq_hash_b = None
    /\ DedupIdle
    /\ StatusIdle
    /\ PoiIdle
    /\ LoopIdle
    /\ BisectIdle
    /\ PolicyIdle
    /\ HexIdle

\* eq_a == eq_b
EqCompare ==
    /\ eq_pc = "start"
    /\ eq_result' = IndexerEq(eq_a, eq_b)
    /\ eq_pc' = "compared"
    /\ UNCHANGED <<eq_a, eq_b, eq_hash_a, eq_hash_b>>
    /\ UNCHANGED <<dedupVars, statusVars, poiVars, loopVars, bisectVars, policyVars, hexVars>>

\* eq_a.hash(state) and eq_b.hash(state)
EqHash ==
    /\ eq_pc = "compared"
    /\ eq_hash_a' = IndexerHash(eq_a)
    /\ eq_hash_b' = IndexerHash(eq_b)
    /\ eq_pc' = "hashed"
    /\ UNCHANGED <<eq_a, eq_b, eq_result>>
    /\ UNCHANGED <<dedupVars, statusVars, poiVars, loopVars, bisectVars, policyVars, hexVars>>

NextEq ==
    \/ EqCompare
    \/ EqHash

SpecEq == InitEq /\ [][NextEq]_vars

(* ---------------------- specification: Bytes32 ------------------------ *)
\* either a 32-byte PoI that is going to be encoded, or a string off the wire
InitHex ==
    /\ \/ /\ hx_pc = "value"
          /\ hx_value \in [1..Bytes32Len -> ByteValues]
          /\ hx_prefixed \in BOOLEAN
          /\ hx_string = <<>>
       \/ /\ hx_pc = "wire"
          /\ hx_value = <<>>
          /\ hx_prefixed = FALSE
          /\ hx_string \in SeqsUpTo(WireChars, MaxHexInput)
    /\ hx_result = HexErr
    /\ DedupIdle
    /\ StatusIdle
    /\ PoiIdle
    /\ LoopIdle
    /\ BisectIdle
    /\ PolicyIdle
    /\ EqIdle

\* the PoI is written to the wire, with or without one "0x" in front
HexWrite ==
    /\ hx_pc = "value"
    /\ hx_string' = (IF hx_prefixed THEN <<"0", "x">> ELSE <<>>) \o Bytes32ToString(hx_value)
    /\ hx_pc' = "encoded"
    /\ UNCHANGED <<hx_value, hx_prefixed, hx_result>>
    /\ UNCHANGED <<dedupVars, statusVars, poiVars, loopVars, bisectVars, policyVars, eqVars>>

\* Bytes32::try_from(hx_string)
HexRead ==
    /\ hx_pc \in {"encoded", "wire"}
    /\ hx_result' = Bytes32TryFrom(hx_string)
    /\ hx_pc' = IF hx_pc = "encoded" THEN "round_trip" ELSE "decoded"
    /\ UNCHANGED <<hx_value, hx_prefixed, hx_string>>
    /\ UNCHANGED <<dedupVars, statusVars, poiVars, loopVars, bisectVars, policyVars, eqVars>>

NextHex ==
    \/ HexWrite
    \/ HexRead

SpecHex == InitHex /\ [][NextHex]_vars

(* ------------------------------- C11 ----------------------------------- *)
\* write_pois stored PoIs of both indexers at block n, and they differ / agree
StoredDiffering(n) == n \in bs_live /\ bs_poi_a[n] # bs_poi_b[n]

StoredIdentical(n) == n \in bs_live /\ bs_poi_a[n] = bs_poi_b[n]

\* the blocks whose PoIs both indexers have produced so far
KnownBlocks == {n \in BlockNumbers : bs_poi_a[n] # Unknown /\ bs_poi_b[n] # Unknown}

\* once the PoIs of the two indexers differ at a block they differ at every later one
DivergencePersists ==
    \A k, n \in KnownBlocks : (k < n /\ PoisDifferAt(k)) => PoisDifferAt(n)

\* C11 as stated: with differing PoIs stored at block N and identical ones
\* stored at a block M < N, every report of a request with upper <= N has its
\* first divergent block above M.
C11_ReportAboveStoredAgreement ==
    bs_pc = "reported" =>
        \A N, M \in BlockNumbers :
            (StoredDiffering(N) /\ StoredIdentical(M) /\ M < N /\ bs_req.upper <= N) =>
                bs_report.first_divergent_block > M

\* C11, amended: the same, provided that the PoIs of the two indexers, once
\* they differ at a block, differ at every later block.
C11_ReportAboveStoredAgreementIfDivergencePersists ==
    (bs_pc = "reported" /\ DivergencePersists) =>
        \A N, M \in BlockNumbers :
            (StoredDiffering(N) /\ StoredIdentical(M) /\ M < N /\ bs_req.upper <= N) =>
                bs_report.first_divergent_block > M

\* a report after at least one probe, for a request whose range contains a
\* block with stored identical PoIs, with persistent divergence
C11_Witness ==
    /\ bs_pc = "reported"
    /\ DivergencePersists
    /\ Len(bs_probed) >= 1
    /\ \E M \in BlockNumbers :
          /\ StoredIdentical(M)
          /\ InitialLow(bs_req) < M
          /\ M < bs_req.upper
          /\ StoredDiffering(bs_req.upper)
          /\ bs_report.first_divergent_block > M

(* ------------------------------- C12 ----------------------------------- *)
\* the rows the investigation has written for block n
RowsAt(written, n) == {row \in written : row.block = n}

LastProbed(probed) == probed[Len(probed)]

\* this step probed a block and the fetch from at least one indexer failed
ProbeFailedInStep ==
    /\ Len(bs_probed') = Len(bs_probed) + 1
    /\ Cardinality(RowsAt(bs_written', LastProbed(bs_probed'))) < 2

\* C12: a probe with a failed fetch ends the investigation with a partial
\* report, status incomplete, naming the probed block; an investigation that
\* ended this way takes no further step (no final report, no retry).
C12_FetchFailureAbortsWithPartialReport ==
    /\ [][/\ bs_pc # "partial_failure"
          /\ ProbeFailedInStep =>
                /\ bs_pc' = "partial_failure"
                /\ bs_report'.status = "incomplete"
                /\ bs_report'.failed_at = LastProbed(bs_probed')
                /\ bs_low' = bs_low
                /\ bs_high' = bs_high]_vars
    /\ [](bs_pc = "partial_failure" =>
            /\ bs_report.status = "incomplete"
            /\ bs_report.failed_at = LastProbed(bs_probed))

\* the second probe failed for one of the two indexers only
C12_Witness ==
    /\ bs_pc = "partial_failure"
    /\ Len(bs_probed) = 2
    /\ Cardinality(RowsAt(bs_written, bs_probed[1])) = 2
    /\ Cardinality(RowsAt(bs_written, bs_probed[2])) = 1
    /\ bs_report = [status |-> "incomplete", failed_at |-> bs_probed[2]]

(* ------------------------------- C13 ----------------------------------- *)
\* C13: when the report is emitted after probing k blocks, the rows written
\* are exactly the PoI of each of the two indexers at each probed block, all
\* FromInvestigation: 2k rows, none Live.
C13_TwoInvestigationRowsPerProbe ==
    bs_pc = "reported" =>
        /\ Cardinality({bs_probed[i] : i \in 1..Len(bs_probed)}) = Len(bs_probed)
        /\ Cardinality(bs_written) = 2 * Len(bs_probed)
        /\ \A row \in bs_written : row.liveness = "FromInvestigation"
        /\ \A i \in 1..Len(bs_probed) :
              /\ [indexer |-> "a", block |-> bs_probed[i], poi |-> bs_poi_a[bs_probed[i]],
                  liveness |-> "FromInvestigation"] \in bs_written
              /\ [indexer |-> "b", block |-> bs_probed[i], poi |-> bs_poi_b[bs_probed[i]],
                  liveness |-> "FromInvestigation"] \in bs_written

\* a report after three probes, six rows written
C13_Witness ==
    /\ bs_pc = "reported"
    /\ Len(bs_probed) = 3
    /\ Cardinality(bs_written) = 6

(* ------------------------------- C14 ----------------------------------- *)
\* C14: choose_block returns none exactly on an empty input, returns the
\* same for the same statuses in any order, and MaxBlock returns the
\* largest latest_block.number of a non-empty input.
C14_PolicyIsFunctionOfStatusSet ==
    /\ pl_pc \in {"chosen", "rechosen"} =>
          /\ pl_result = NoBlock <=> Len(pl_statuses) = 0
          /\ (pl_policy = "MaxBlock" /\ Len(pl_statuses) > 0) =>
                /\ pl_result \in LatestNumbers(pl_statuses)
                /\ \A n \in LatestNumbers(pl_statuses) : n <= pl_result
    /\ pl_pc = "rechosen" => pl_reresult = pl_result

\* MaxBlock on statuses whose largest block number comes first and which
\* are then iterated in another order
C14_Witness ==
    /\ pl_pc = "rechosen"
    /\ pl_policy = "MaxBlock"
    /\ Len(pl_statuses) = 3
    /\ pl_statuses[1].latest = 101
    /\ pl_statuses[3].latest = 99
    /\ pl_reordered # pl_statuses
    /\ pl_result = 101

(* ------------------------------- C15 ----------------------------------- *)
\* C15: on a non-empty input MostSyncedBlocks returns a block number of the
\* input that no other number outnumbers, and the lowest of those.
C15_MostSyncedIsLowestPlurality ==
    (pl_pc \in {"chosen", "rechosen"} /\ pl_policy = "MostSyncedBlocks" /\ Len(pl_statuses) > 0) =>
        /\ pl_result \in LatestNumbers(pl_statuses)
        /\ \A n \in LatestNumbers(pl_statuses) :
              /\ Plurality(pl_statuses, n) <= Plurality(pl_statuses, pl_result)
              /\ Plurality(pl_statuses, n) = Plurality(pl_statuses, pl_result) => pl_result <= n

\* [100, 100, 99, 99, 101] gives 99
C15_Witness ==
    /\ pl_pc = "chosen"
    /\ pl_policy = "MostSyncedBlocks"
    /\ pl_statuses = <<PolicyStatus(100), PolicyStatus(100), PolicyStatus(99),
                       PolicyStatus(99), PolicyStatus(101)>>
    /\ pl_result = 99

(* ------------------------------- C16 ----------------------------------- *)
\* every list holding the elements of s in some order
ReorderingsOf(s) ==
    {[k \in DOMAIN s |-> s[order[k]]] : order \in Orderings(DOMAIN s)}

\* the batches have just been built and no indexer has answered yet
BatchesJustBuilt ==
    /\ qp_pc = "querying"
    /\ qp_pending = DOMAIN qp_requests
    /\ qp_pois = <<>>

\* C16: the batches built for the status list are the batches built for
\* every permutation of it, indexer by indexer (compared when they are
\* built: they do not change afterwards), and every PoI collected answers a
\* request of these batches.
C16_PermutationSameRequestsAndPois ==
    /\ [](BatchesJustBuilt =>
            \A other \in ReorderingsOf(qp_statuses) :
                /\ IndexersOf(other) = DOMAIN qp_requests
                /\ \A ix \in IndexersOf(other) :
                      PoiRequests(other, qp_policy, ix) = qp_requests[ix])
    /\ [][qp_pc # "called" => UNCHANGED <<qp_requests, qp_statuses, qp_policy>>]_vars
    /\ [](\A k \in DOMAIN qp_pois :
            [deployment |-> qp_pois[k].deployment, block_number |-> qp_pois[k].block]
                \in qp_requests[qp_pois[k].indexer])

\* three statuses of one deployment with different latest blocks, the
\* largest neither first nor last, and a PoI collected
C16_Witness ==
    /\ qp_pc = "returned"
    /\ Len(qp_statuses) = 3
    /\ qp_statuses[1].deployment = qp_statuses[2].deployment
    /\ qp_statuses[2].deployment = qp_statuses[3].deployment
    /\ qp_statuses[1].latest < qp_statuses[2].latest
    /\ qp_statuses[3].latest < qp_statuses[2].latest
    /\ qp_statuses[1].indexer # qp_statuses[2].indexer
    /\ Len(qp_pois) >= 1

(* ------------------------------- C20 ----------------------------------- *)
\* C20: there is one batch per distinct indexer of the statuses and each of
\* these indexers is called exactly once; the batch of an indexer, which
\* does not change once built, holds (deployment, target) exactly when the
\* policy chose target for the deployment and the indexer has a status for
\* it that has reached target.
C20_OneCallPerIndexerWithItsBatch ==
    /\ [](\A ix \in PoiIndexers : qp_calls[ix] <= 1)
    /\ [](qp_pc \in {"querying", "returned"} =>
            /\ DOMAIN qp_requests = IndexersOf(qp_statuses)
            /\ \A ix \in PoiIndexers \ IndexersOf(qp_statuses) : qp_calls[ix] = 0
            /\ \A ix \in IndexersOf(qp_statuses) :
                  qp_calls[ix] = IF ix \in qp_pending THEN 0 ELSE 1)
    /\ [](qp_pc = "returned" => \A ix \in IndexersOf(qp_statuses) : qp_calls[ix] = 1)
    /\ [](BatchesJustBuilt =>
            \A ix \in IndexersOf(qp_statuses) :
                /\ \A d \in Deployments, target \in LatestBlockNumbers :
                      [deployment |-> d, block_number |-> target] \in qp_requests[ix]
                      <=> /\ choose_block(qp_policy, StatusesByDeployment(qp_statuses, d)) = target
                          /\ \E j \in DOMAIN qp_statuses :
                                /\ qp_statuses[j].indexer = ix
                                /\ qp_statuses[j].deployment = d
                                /\ qp_statuses[j].latest >= target
                /\ \A request \in qp_requests[ix] :
                      /\ request.deployment \in Deployments
                      /\ request.block_number \in LatestBlockNumbers)
    /\ [][qp_pc # "called" => qp_requests' = qp_requests]_vars

\* both indexers were called once: one has reached the target exactly and
\* was asked for it, the other is behind and was called with an empty batch
C20_Witness ==
    /\ qp_pc = "returned"
    /\ Cardinality(IndexersOf(qp_statuses)) = 2
    /\ \A ix \in PoiIndexers : qp_calls[ix] = 1
    /\ \E ix \in PoiIndexers, jx \in PoiIndexers :
          /\ qp_requests[jx] = {}
          /\ \E request \in qp_requests[ix] :
                \E j \in DOMAIN qp_statuses :
                    /\ qp_statuses[j].indexer = ix
                    /\ qp_statuses[j].deployment = request.deployment
                    /\ qp_statuses[j].latest = request.block_number

(* ------------------------------- C17 ----------------------------------- *)
\* equality as C17 states it: by address, by id when addresses are absent
EqualByAddressOrId(a, b) ==
    IF a.address = None /\ b.address = None THEN a.id = b.id ELSE a.address = b.address

\* C17 as stated: two indexers compare equal, and hash equally, exactly
\* when their addresses are equal, or their ids when they have no address.
C17_EqualIffSameAddress ==
    /\ eq_pc \in {"compared", "hashed"} =>
          (eq_result <=> EqualByAddressOrId(eq_a, eq_b))
    /\ eq_pc = "hashed" =>
          (eq_hash_a = eq_hash_b <=> EqualByAddressOrId(eq_a, eq_b))

\* C17, amended: two indexers compare equal, and feed the same data to the
\* hasher, exactly when their ids are equal, whatever their addresses.
C17_EqualIffSameId ==
    /\ eq_pc \in {"compared", "hashed"} =>
          (eq_result <=> eq_a.id = eq_b.id)
    /\ eq_pc = "hashed" =>
          (eq_hash_a = eq_hash_b <=> eq_a.id = eq_b.id)

\* two indexers of one id and different addresses: equal, same hash
C17_Witness ==
    /\ eq_pc = "hashed"
    /\ eq_a.id = eq_b.id
    /\ eq_a.address # None
    /\ eq_b.address # None
    /\ eq_a.address # eq_b.address
    /\ eq_result
    /\ eq_hash_a = eq_hash_b

(* ------------------------------- C18 ----------------------------------- *)
\* C18: a 32-byte PoI written as hex, with or without one "0x" in front,
\* is read back as the same PoI; and whatever string is read, a PoI that
\* is returned has exactly 32 bytes.
C18_RoundTripAndExactly32Bytes ==
    /\ hx_pc = "round_trip" => hx_result = [ok |-> TRUE, bytes |-> hx_value]
    /\ (hx_pc \in {"round_trip", "decoded"} /\ hx_result.ok) =>
          Len(hx_result.bytes) = Bytes32Len

(* ------------------------------- C19 ----------------------------------- *)
\* C19: the end of the investigator task never makes main return: with the
\* task ended, main never leaves the loop at the publication of the
\* indexer set, the one step that involves the task.
C19_InvestigatorEndNeverStopsMain ==
    inv_pc = "ended" => ml_exit # "send"

(* ------------------------------- C21 ----------------------------------- *)
\* C21: in a round every request for a deployment, in whichever batch,
\* carries one and the same block, which is the block the policy chose for
\* that deployment (compared when the batches are built), and a batch holds
\* at most one request per deployment.
C21_OneTargetPerDeployment ==
    /\ qp_pc \in {"querying", "returned"} =>
          \A ix \in DOMAIN qp_batches :
              \A request \in BagToSet(qp_batches[ix]) :
                  /\ CopiesIn(request, qp_batches[ix]) = 1
                  /\ \A jx \in DOMAIN qp_batches :
                        \A other \in BagToSet(qp_batches[jx]) :
                            other.deployment = request.deployment =>
                                other.block_number = request.block_number
    /\ BatchesJustBuilt =>
          \A ix \in DOMAIN qp_batches :
              \A request \in BagToSet(qp_batches[ix]) :
                  request.block_number =
                      choose_block(qp_policy,
                                   StatusesByDeployment(qp_statuses, request.deployment))

\* both indexers are asked for the same deployment, one of them having two
\* statuses for it that both reach the target
C21_Witness ==
    /\ qp_pc = "returned"
    /\ Len(qp_statuses) = 3
    /\ qp_statuses[1].indexer = qp_statuses[2].indexer
    /\ qp_statuses[1].deployment = qp_statuses[2].deployment
    /\ qp_statuses[3].indexer # qp_statuses[1].indexer
    /\ qp_statuses[3].deployment = qp_statuses[1].deployment
    /\ \A ix \in DOMAIN qp_batches : BagCardinality(qp_batches[ix]) = 1
    /\ Cardinality(DOMAIN qp_batches) = 2

\* the batch as a set, as the other claims read it, is the batch collected
PoiBatchesAgree ==
    qp_pc \in {"querying", "returned"} =>
        \A ix \in DOMAIN qp_batches : BagToSet(qp_batches[ix]) = qp_requests[ix]

(* ------------------------------- C22 ----------------------------------- *)
\* this step probed a block
ProbedInStep == Len(bs_probed') = Len(bs_probed) + 1

\* C22: the subtraction high - low never underflows; every probed block
\* lies strictly between low and high and the probe narrows high - low;
\* and a request with upper_block_number <= max(earliest_a, earliest_b) + 1,
\* upper below that maximum included, is never probed and only reports.
C22_BisectionNarrowsAndShortRangesAreNotProbed ==
    /\ [](bs_pc # "panicked")
    /\ [][ProbedInStep =>
            /\ bs_low < LastProbed(bs_probed')
            /\ LastProbed(bs_probed') < bs_high
            /\ bs_pc' = "loop" => bs_high' - bs_low' < bs_high - bs_low]_vars
    /\ [](bs_req.upper <= InitialLow(bs_req) + 1 =>
            /\ bs_probed = <<>>
            /\ bs_pc \in {"idle", "loop", "reported"})

(* ------------------------------- C23 ----------------------------------- *)
\* C23: an indexer of the input that no earlier indexer of the input equals,
\* by address, or by id when both have no address, is in the output; so
\* the indexers without an address whose id no other such indexer has are
\* all in the output.
C23_DedupDropsOnlyEqualIndexers ==
    dd_pc = "returned" =>
        /\ \A i \in 1..Len(dd_input) :
              (\A j \in 1..(i - 1) : ~EqualByAddressOrId(dd_input[j], dd_input[i])) =>
                  \E k \in 1..Len(dd_output) : dd_output[k] = dd_input[i]
        /\ \A i \in 1..Len(dd_input) :
              (/\ dd_input[i].address = None
               /\ \A j \in 1..Len(dd_input) :
                     (j # i /\ dd_input[j].address = None) => dd_input[j].id # dd_input[i].id) =>
                  \E k \in 1..Len(dd_output) : dd_output[k] = dd_input[i]


====
